---- MODULE Spec2Model ----
(***************************************************************************)
(* The two generated "implementors" scripts of the documentation site:     *)
(*   src/implementors/core/ops/trait.CoerceUnsized.js                      *)
(*   src/implementors/bitflags/__core/iter/trait.IntoIterator.js           *)
(* Each script is an immediately-invoked function that builds the object   *)
(* `implementors` (lines 1-2) and hands it over (lines 4-8): to            *)
(* window.register_implementors when that global is truthy, to             *)
(* window.pending_implementors otherwise.                                  *)
(*                                                                         *)
(* A script runs to completion, so one load is one step.  The page around  *)
(* the scripts assigns window.register_implementors between loads.         *)
(***************************************************************************)
EXTENDS Integers, Sequences, FiniteSets

\* The largest number of script loads in one behaviour.
MaxLoads == 3

(***************************************************************************)
(* JavaScript values, as far as the loader can tell them apart: the type   *)
(* tag decides truthiness and callability, objects carry an identity.      *)
(***************************************************************************)
Undefined == [type |-> "undefined", v |-> "undefined"]
Null == [type |-> "null", v |-> "null"]
Zero == [type |-> "number", v |-> "0"]
One == [type |-> "number", v |-> "1"]
EmptyString == [type |-> "string", v |-> ""]
\* A hook that records its call and returns.
RecordingStub == [type |-> "function", v |-> "records"]
\* A hook that records its call and then throws.
ThrowingStub == [type |-> "function", v |-> "records, throws"]

\* The values the page may leave in window.register_implementors when the
\* hook is an optional callable: absent, or a function.
OptionalCallable == {Undefined, RecordingStub, ThrowingStub}

\* Any value a page could store in window.register_implementors.
AnyValue ==
  OptionalCallable \cup
    {Null, Zero, EmptyString, One}

\* A test for `!== undefined` in place of the conversion to boolean.
ToBooleanDefinedOnly(v) == v.type # "undefined"

\* ToBoolean, the conversion `if (...)` applies to its condition:
\* undefined, null, 0 and "" are falsy; other numbers and strings, objects
\* and functions are truthy.
ToBoolean(v) ==
  CASE v.type = "undefined" -> FALSE
    [] v.type = "null" -> FALSE
    [] v.type = "number" -> v.v # "0"
    [] v.type = "string" -> v.v # ""
    [] OTHER -> TRUE

\* Only functions can be called.
IsCallable(v) == v.type = "function"

\* Completion records of a script run.
Normal == [type |-> "normal", value |-> "none"]
Throw(e) == [type |-> "throw", value |-> e]

(***************************************************************************)
(* The generated data: the statements of line 2 of each script, in order.  *)
(* Every statement is  implementors['key'] = [elems];  trailingComma says  *)
(* whether the array literal ends in a comma before the bracket.           *)
(***************************************************************************)
CoerceUnsized == "implementors/core/ops/trait.CoerceUnsized.js"
IntoIterator == "implementors/bitflags/__core/iter/trait.IntoIterator.js"
Files == {CoerceUnsized, IntoIterator}

CoerceUnsizedStatements ==
  <<
    [key |-> "libc", trailingComma |-> FALSE,
      elems |-> <<>>],
    [key |-> "openssl", trailingComma |-> FALSE,
      elems |-> <<>>],
    [key |-> "string_cache", trailingComma |-> FALSE,
      elems |-> <<>>],
    [key |-> "html5ever", trailingComma |-> TRUE,
      elems |-> <<
        "impl&lt;T, U&gt; <a class='trait' href='https://doc.rust-lang.org/nightly/core/ops/trait.CoerceUnsized.html' title='core::ops::CoerceUnsized'>CoerceUnsized</a>&lt;<a class='struct' href='https://doc.rust-lang.org/nightly/alloc/rc/struct.Rc.html' title='alloc::rc::Rc'>Rc</a>&lt;U&gt;&gt; for <a class='struct' href='https://doc.rust-lang.org/nightly/alloc/rc/struct.Rc.html' title='alloc::rc::Rc'>Rc</a>&lt;T&gt; <span class='where'>where T: <a class='trait' href='https://doc.rust-lang.org/nightly/core/marker/trait.Unsize.html' title='core::marker::Unsize'>Unsize</a>&lt;U&gt; + ?<a class='trait' href='https://doc.rust-lang.org/nightly/core/marker/trait.Sized.html' title='core::marker::Sized'>Sized</a>, U: ?<a class='trait' href='https://doc.rust-lang.org/nightly/core/marker/trait.Sized.html' title='core::marker::Sized'>Sized</a></span>"
      >>],
    [key |-> "hyper", trailingComma |-> FALSE,
      elems |-> <<>>]
  >>

IntoIteratorStatements ==
  <<
    [key |-> "bitflags", trailingComma |-> TRUE,
      elems |-> <<
        "impl&lt;T&gt; <a class='trait' href='bitflags/__core/iter/trait.IntoIterator.html' title='bitflags::__core::iter::IntoIterator'>IntoIterator</a> for <a class='struct' href='bitflags/__core/vec/struct.Vec.html' title='bitflags::__core::vec::Vec'>Vec</a>&lt;T&gt;",
        "impl&lt;K, V, S&gt; <a class='trait' href='bitflags/__core/iter/trait.IntoIterator.html' title='bitflags::__core::iter::IntoIterator'>IntoIterator</a> for <a class='struct' href='bitflags/__core/collections/struct.HashMap.html' title='bitflags::__core::collections::HashMap'>HashMap</a>&lt;K, V, S&gt; <span class='where'>where K: <a class='trait' href='bitflags/__core/cmp/trait.Eq.html' title='bitflags::__core::cmp::Eq'>Eq</a> + <a class='trait' href='bitflags/__core/hash/trait.Hash.html' title='bitflags::__core::hash::Hash'>Hash</a>, S: <a class='trait' href='bitflags/__core/hash/trait.BuildHasher.html' title='bitflags::__core::hash::BuildHasher'>BuildHasher</a></span>",
        "impl&lt;T, S&gt; <a class='trait' href='bitflags/__core/iter/trait.IntoIterator.html' title='bitflags::__core::iter::IntoIterator'>IntoIterator</a> for <a class='struct' href='bitflags/__core/collections/struct.HashSet.html' title='bitflags::__core::collections::HashSet'>HashSet</a>&lt;T, S&gt; <span class='where'>where T: <a class='trait' href='bitflags/__core/cmp/trait.Eq.html' title='bitflags::__core::cmp::Eq'>Eq</a> + <a class='trait' href='bitflags/__core/hash/trait.Hash.html' title='bitflags::__core::hash::Hash'>Hash</a>, S: <a class='trait' href='bitflags/__core/hash/trait.BuildHasher.html' title='bitflags::__core::hash::BuildHasher'>BuildHasher</a></span>",
        "impl&lt;T&gt; <a class='trait' href='bitflags/__core/iter/trait.IntoIterator.html' title='bitflags::__core::iter::IntoIterator'>IntoIterator</a> for <a class='struct' href='bitflags/__core/collections/struct.BinaryHeap.html' title='bitflags::__core::collections::BinaryHeap'>BinaryHeap</a>&lt;T&gt; <span class='where'>where T: <a class='trait' href='bitflags/__core/cmp/trait.Ord.html' title='bitflags::__core::cmp::Ord'>Ord</a></span>",
        "impl&lt;T&gt; <a class='trait' href='bitflags/__core/iter/trait.IntoIterator.html' title='bitflags::__core::iter::IntoIterator'>IntoIterator</a> for <a class='struct' href='bitflags/__core/collections/struct.LinkedList.html' title='bitflags::__core::collections::LinkedList'>LinkedList</a>&lt;T&gt;",
        "impl&lt;K, V&gt; <a class='trait' href='bitflags/__core/iter/trait.IntoIterator.html' title='bitflags::__core::iter::IntoIterator'>IntoIterator</a> for <a class='struct' href='bitflags/__core/collections/btree_map/struct.BTreeMap.html' title='bitflags::__core::collections::btree_map::BTreeMap'>BTreeMap</a>&lt;K, V&gt;",
        "impl&lt;T&gt; <a class='trait' href='bitflags/__core/iter/trait.IntoIterator.html' title='bitflags::__core::iter::IntoIterator'>IntoIterator</a> for <a class='struct' href='bitflags/__core/collections/struct.BTreeSet.html' title='bitflags::__core::collections::BTreeSet'>BTreeSet</a>&lt;T&gt;",
        "impl&lt;T&gt; <a class='trait' href='bitflags/__core/iter/trait.IntoIterator.html' title='bitflags::__core::iter::IntoIterator'>IntoIterator</a> for <a class='struct' href='bitflags/__core/collections/struct.VecDeque.html' title='bitflags::__core::collections::VecDeque'>VecDeque</a>&lt;T&gt;"
      >>]
  >>

Statements(file) ==
  IF file = CoerceUnsized THEN CoerceUnsizedStatements
  ELSE IntoIteratorStatements

\* var implementors = {};
EmptyObject == [k \in {} |-> <<>>]

\* An array literal whose trailing comma counts as one more (empty) slot.
ArrayLiteralExtraSlot(elems, trailingComma) ==
  IF trailingComma THEN Append(elems, "") ELSE elems

\* The value of an array literal: a single trailing comma adds no element.
ArrayLiteral(elems, trailingComma) == elems

\* An assignment that leaves out the keys whose array is empty.
PutPropSkipEmpty(obj, key, value) ==
  IF value = <<>> THEN obj
  ELSE [k \in DOMAIN obj \cup {key} |-> IF k = key THEN value ELSE obj[k]]

\* obj[key] = value: adds the property or replaces its value.
PutProp(obj, key, value) ==
  [k \in DOMAIN obj \cup {key} |-> IF k = key THEN value ELSE obj[k]]

\* The properties of `implementors` after the first n statements.
RECURSIVE RunStatements(_, _)
RunStatements(stmts, n) ==
  IF n = 0 THEN EmptyObject
  ELSE PutProp(RunStatements(stmts, n - 1), stmts[n].key,
               ArrayLiteral(stmts[n].elems, stmts[n].trailingComma))

\* Lines 1-2: the object a load builds.  Every load allocates a new object;
\* id is its identity.
BuildImplementors(file, id) ==
  [type |-> "object", v |-> "implementors", id |-> id,
   props |-> RunStatements(Statements(file), Len(Statements(file)))]

\* The keys written in the script's text.
LiteralKeys(file) ==
  {Statements(file)[n].key : n \in 1..Len(Statements(file))}

(***************************************************************************)
(* State.                                                                  *)
(*   register_implementors  window.register_implementors                   *)
(*   pending_implementors   window.pending_implementors                    *)
(*   calls    what the hooks recorded: one entry per invocation            *)
(*   writes   the number of assignments made to pending_implementors       *)
(*   loads    the loads so far: file, hook value seen, object built,       *)
(*            completion, and the slot writes of that load                 *)
(***************************************************************************)
VARIABLES register_implementors, pending_implementors, calls, writes, loads

vars == <<register_implementors, pending_implementors, calls, writes, loads>>

\* hook(arg): a function is invoked with the argument, and either returns
\* or throws; calling anything else throws a TypeError and invokes nothing.
CallHook(hook, arg) ==
  IF IsCallable(hook)
  THEN [invocations |-> << <<arg>> >>,
        completion |-> IF hook = ThrowingStub THEN Throw("HookError")
                       ELSE Normal]
  ELSE [invocations |-> <<>>, completion |-> Throw("TypeError")]

\* The result of lines 4-8 is a record:
\*   pending      the value of window.pending_implementors afterwards
\*   writes       the number of assignments to it
\*   invocations  the argument lists the hook was invoked with
\*   completion   how the statement completed

\* Lines 4-8 with the hook invoked a second time.
LoaderBodyCallTwice(hook, pending, implementors) ==
  IF ToBoolean(hook)
  THEN LET r == CallHook(hook, implementors)
       IN [pending |-> pending, writes |-> 0,
           invocations |-> r.invocations \o r.invocations,
           completion |-> r.completion]
  ELSE [pending |-> implementors, writes |-> 1,
        invocations |-> <<>>, completion |-> Normal]

\* Lines 4-8 without the else branch: nothing happens when the hook is absent.
LoaderBodyNoStash(hook, pending, implementors) ==
  IF ToBoolean(hook)
  THEN LET r == CallHook(hook, implementors)
       IN [pending |-> pending, writes |-> 0,
           invocations |-> r.invocations, completion |-> r.completion]
  ELSE [pending |-> pending, writes |-> 0,
        invocations |-> <<>>, completion |-> Normal]

\* Lines 4-8 with the slot written only while it is still unset.
LoaderBodyFirstWriterWins(hook, pending, implementors) ==
  IF ToBoolean(hook)
  THEN LET r == CallHook(hook, implementors)
       IN [pending |-> pending, writes |-> 0,
           invocations |-> r.invocations, completion |-> r.completion]
  ELSE IF ToBoolean(pending)
       THEN [pending |-> pending, writes |-> 0,
             invocations |-> <<>>, completion |-> Normal]
       ELSE [pending |-> implementors, writes |-> 1,
             invocations |-> <<>>, completion |-> Normal]

\* Lines 4-8 with the new table merged into the table already pending:
\* the keys of both, and under a shared key the old entries then the new.
LoaderBodyMerge(hook, pending, implementors) ==
  IF ToBoolean(hook)
  THEN LET r == CallHook(hook, implementors)
       IN [pending |-> pending, writes |-> 0,
           invocations |-> r.invocations, completion |-> r.completion]
  ELSE IF ToBoolean(pending)
       THEN [pending |->
               [implementors EXCEPT !.props =
                  [k \in DOMAIN pending.props \cup DOMAIN implementors.props |->
                     (IF k \in DOMAIN pending.props
                      THEN pending.props[k] ELSE <<>>)
                     \o (IF k \in DOMAIN implementors.props
                         THEN implementors.props[k] ELSE <<>>)]],
             writes |-> 1, invocations |-> <<>>, completion |-> Normal]
       ELSE [pending |-> implementors, writes |-> 1,
             invocations |-> <<>>, completion |-> Normal]

\* Lines 4-8 with the slot cleared once the hook has been called.
LoaderBodyClearSlot(hook, pending, implementors) ==
  IF ToBoolean(hook)
  THEN LET r == CallHook(hook, implementors)
       IN [pending |-> Undefined, writes |-> 1,
           invocations |-> r.invocations, completion |-> r.completion]
  ELSE [pending |-> implementors, writes |-> 1,
        invocations |-> <<>>, completion |-> Normal]

\* Lines 4-8 with the table stored in the slot on both branches.
LoaderBodyStashAlways(hook, pending, implementors) ==
  IF ToBoolean(hook)
  THEN LET r == CallHook(hook, implementors)
       IN [pending |-> implementors, writes |-> 1,
           invocations |-> r.invocations, completion |-> r.completion]
  ELSE [pending |-> implementors, writes |-> 1,
        invocations |-> <<>>, completion |-> Normal]

\* Lines 4-8 with a pending table handed to the hook in place of the
\* file's own.
LoaderBodyFlushPending(hook, pending, implementors) ==
  IF ToBoolean(hook)
  THEN LET r == CallHook(hook, IF ToBoolean(pending) THEN pending
                               ELSE implementors)
       IN [pending |-> pending, writes |-> 0,
           invocations |-> r.invocations, completion |-> r.completion]
  ELSE [pending |-> implementors, writes |-> 1,
        invocations |-> <<>>, completion |-> Normal]

\* Lines 4-8: the effect of the if statement on the two globals.
LoaderBody(hook, pending, implementors) ==
  IF ToBoolean(hook)
  THEN LET r == CallHook(hook, implementors)
       IN [pending |-> pending, writes |-> 0,
           invocations |-> r.invocations, completion |-> r.completion]
  ELSE [pending |-> implementors, writes |-> 1,
        invocations |-> <<>>, completion |-> Normal]

Init ==
  /\ register_implementors = Undefined
  /\ pending_implementors = Undefined
  /\ calls = <<>>
  /\ writes = 0
  /\ loads = <<>>

\* The page loads one of the scripts: the whole function body runs.
Load(file) ==
  /\ Len(loads) < MaxLoads
  /\ LET id == Len(loads) + 1
         implementors == BuildImplementors(file, id)
         r == LoaderBody(register_implementors, pending_implementors,
                         implementors)
     IN /\ pending_implementors' = r.pending
        /\ writes' = writes + r.writes
        /\ calls' = calls \o
             [i \in 1..Len(r.invocations) |->
                [load |-> id, args |-> r.invocations[i]]]
        /\ loads' = Append(loads,
             [file |-> file, hook |-> register_implementors,
              table |-> implementors, completion |-> r.completion,
              writes |-> r.writes])
  /\ UNCHANGED register_implementors

\* The page defines, replaces or removes the hook.
SetHook(value) ==
  /\ value # register_implementors
  /\ register_implementors' = value
  /\ UNCHANGED <<pending_implementors, calls, writes, loads>>

LoadAny == \E file \in Files : Load(file)
SetOptionalCallable == \E value \in OptionalCallable : SetHook(value)
SetAnyValue == \E value \in AnyValue : SetHook(value)

\* The hook is an optional callable.
Next == LoadAny \/ SetOptionalCallable
Spec == Init /\ [][Next]_vars

\* The hook slot may hold any value.
NextAnyValue == LoadAny \/ SetAnyValue
SpecAnyValue == Init /\ [][NextAnyValue]_vars

(***************************************************************************)
(* Properties.                                                             *)
(***************************************************************************)
\* The invocations recorded during load i.
CallsDuring(i) == {n \in 1..Len(calls) : calls[n].load = i}

\* A step that is a load; the load it adds is loads'[Len(loads')].
IsLoadStep == Len(loads') = Len(loads) + 1

\* C1: a load made with the hook defined calls the hook exactly once, during
\* that load, with one argument: the table that load built, whose keys are the
\* keys written in the file.
C1_HookCalledOnceWithOwnTable ==
  \A i \in 1..Len(loads) :
    loads[i].hook # Undefined =>
      /\ Cardinality(CallsDuring(i)) = 1
      /\ \A n \in CallsDuring(i) :
           /\ calls[n].args = <<loads[i].table>>
           /\ DOMAIN calls[n].args[1].props = LiteralKeys(loads[i].file)

C1_Witness ==
  /\ Len(loads) = 2
  /\ loads[1].file = CoerceUnsized /\ loads[1].hook = RecordingStub
  /\ loads[2].file = IntoIterator /\ loads[2].hook = ThrowingStub
  /\ Len(calls) = 2

\* C2: a load made with the hook undefined leaves, right after the load, the
\* pending slot equal to the table that load built, and calls no hook.
C2_AbsentHookStashesTable ==
  [][(IsLoadStep /\ register_implementors = Undefined) =>
       /\ pending_implementors' = loads'[Len(loads')].table
       /\ pending_implementors'.props =
            RunStatements(Statements(loads'[Len(loads')].file),
                          Len(Statements(loads'[Len(loads')].file)))
       /\ calls' = calls
       /\ \A n \in 1..Len(calls') : calls'[n].load # Len(loads')]_vars

C2_Witness ==
  /\ Len(loads) = 2
  /\ loads[1].hook = Undefined /\ loads[1].file = IntoIterator
  /\ loads[2].hook = Undefined /\ loads[2].file = CoerceUnsized
  /\ pending_implementors = loads[2].table
  /\ calls = <<>>

\* C3: while every load so far was made with the hook absent, the pending slot
\* holds exactly the table of the most recent load: its keys are that file's
\* keys alone (nothing merged in), and no earlier load's table is held in
\* either global.
C3_LastWriterWins ==
  (Len(loads) > 0 /\ \A i \in 1..Len(loads) : loads[i].hook = Undefined) =>
    LET last == loads[Len(loads)]
    IN /\ pending_implementors = last.table
       /\ DOMAIN pending_implementors.props = LiteralKeys(last.file)
       /\ \A i \in 1..(Len(loads) - 1) :
            /\ pending_implementors # loads[i].table
            /\ register_implementors # loads[i].table
       /\ writes = Len(loads)

C3_Witness ==
  /\ Len(loads) = 3
  /\ \A i \in 1..3 : loads[i].hook = Undefined
  /\ loads[1].file = CoerceUnsized
  /\ loads[2].file = IntoIterator
  /\ loads[3].file = CoerceUnsized
  /\ pending_implementors = loads[3].table

\* C4: a load made with the hook defined leaves the pending slot as it was,
\* set or unset, and assigns nothing to it.
C4_DefinedHookLeavesSlot ==
  [][(IsLoadStep /\ register_implementors # Undefined) =>
       /\ pending_implementors' = pending_implementors
       /\ writes' = writes]_vars

C4_Witness ==
  /\ Len(loads) = 3
  /\ loads[1].hook = RecordingStub
  /\ loads[2].hook = Undefined
  /\ loads[3].hook = RecordingStub
  /\ pending_implementors = loads[2].table

\* C5: every load has exactly one side effect, one hook invocation or one
\* write of the pending slot; so invocations plus writes equals loads.
C5_OneSideEffectPerLoad ==
  /\ \A i \in 1..Len(loads) :
       /\ Cardinality(CallsDuring(i)) <= 1
       /\ loads[i].writes <= 1
       /\ Cardinality(CallsDuring(i)) + loads[i].writes = 1
  /\ Len(calls) + writes = Len(loads)

C5_Witness ==
  /\ Len(loads) = 3
  /\ loads[1].hook = Undefined
  /\ loads[2].hook = ThrowingStub
  /\ loads[3].hook = Undefined
  /\ Len(calls) = 1 /\ writes = 2

\* C6: loading a file again with no hook defined, after a load of the same
\* file with no hook defined, leaves the pending slot's table as it was: the
\* file's table, with no entry added or repeated.
C6_ReloadIsIdempotent ==
  [][(/\ IsLoadStep
      /\ register_implementors = Undefined
      /\ Len(loads) > 0
      /\ loads[Len(loads)].hook = Undefined
      /\ loads[Len(loads)].file = loads'[Len(loads')].file) =>
       /\ pending_implementors'.props = pending_implementors.props
       /\ pending_implementors'.props = loads'[Len(loads')].table.props
       /\ \A k \in DOMAIN pending_implementors'.props :
            Len(pending_implementors'.props[k]) =
              Len(pending_implementors.props[k])]_vars

C6_Witness ==
  /\ Len(loads) = 2
  /\ loads[1].hook = Undefined /\ loads[2].hook = Undefined
  /\ loads[1].file = CoerceUnsized /\ loads[2].file = CoerceUnsized
  /\ pending_implementors.id = 2
  /\ Len(pending_implementors.props["html5ever"]) = 1

\* The argument lists a recording stub received during load i.
ReceivedDuring(i) == {calls[n].args : n \in CallsDuring(i)}

\* C7 as stated: a recording stub defined before trait.IntoIterator.js loads
\* receives exactly one call, whose argument has the key set {"bitflags"},
\* and "bitflags" maps to a nine-element sequence.
C7_BitflagsNineElements ==
  \A i \in 1..Len(loads) :
    (loads[i].file = IntoIterator /\ loads[i].hook = RecordingStub) =>
      /\ Cardinality(CallsDuring(i)) = 1
      /\ \A args \in ReceivedDuring(i) :
           /\ Len(args) = 1
           /\ DOMAIN args[1].props = {"bitflags"}
           /\ Len(args[1].props["bitflags"]) = 9

\* C7 as amended: a recording stub defined before trait.IntoIterator.js loads
\* receives exactly one call, whose argument has the key set {"bitflags"},
\* and "bitflags" maps to an eight-element sequence.
C7_BitflagsEightElements ==
  \A i \in 1..Len(loads) :
    (loads[i].file = IntoIterator /\ loads[i].hook = RecordingStub) =>
      /\ Cardinality(CallsDuring(i)) = 1
      /\ \A args \in ReceivedDuring(i) :
           /\ Len(args) = 1
           /\ DOMAIN args[1].props = {"bitflags"}
           /\ Len(args[1].props["bitflags"]) = 8

C7_Witness ==
  /\ Len(loads) = 1
  /\ loads[1].file = IntoIterator /\ loads[1].hook = RecordingStub
  /\ Len(calls) = 1
  /\ "bitflags" \in DOMAIN calls[1].args[1].props

\* C8: after trait.CoerceUnsized.js loads with the hook undefined, the pending
\* slot has the keys libc, openssl, string_cache, html5ever and hyper; libc,
\* openssl and hyper map to empty sequences and html5ever to one element.
C8_CoerceUnsizedPending ==
  (/\ Len(loads) > 0
   /\ loads[Len(loads)].file = CoerceUnsized
   /\ loads[Len(loads)].hook = Undefined) =>
    /\ pending_implementors.type = "object"
    /\ DOMAIN pending_implementors.props =
         {"libc", "openssl", "string_cache", "html5ever", "hyper"}
    /\ pending_implementors.props["libc"] = <<>>
    /\ pending_implementors.props["openssl"] = <<>>
    /\ pending_implementors.props["hyper"] = <<>>
    /\ Len(pending_implementors.props["html5ever"]) = 1

C8_Witness ==
  /\ Len(loads) = 1
  /\ loads[1].file = CoerceUnsized /\ loads[1].hook = Undefined
  /\ pending_implementors.type = "object"
  /\ pending_implementors.id = 1

\* The loads that stashed their table.
Stashed == {i \in 1..Len(loads) : loads[i].hook = Undefined}

\* C9: a load never assigns the hook; a table stashed while the hook was
\* absent is still in the pending slot after every later load made with the
\* hook defined; and every hook call receives the calling load's own table,
\* never one stashed before.
C9_StashedTableStays ==
  /\ [](/\ \A i \in Stashed :
             (\A j \in (i + 1)..Len(loads) : j \notin Stashed) =>
               pending_implementors = loads[i].table
        /\ \A n \in 1..Len(calls) :
             /\ calls[n].args = <<loads[calls[n].load].table>>
             /\ calls[n].args[1].id = calls[n].load
             /\ calls[n].args[1].id \notin Stashed)
  /\ [][IsLoadStep => register_implementors' = register_implementors]_vars

C9_Witness ==
  /\ Len(loads) = 3
  /\ loads[1].hook = Undefined /\ loads[1].file = CoerceUnsized
  /\ loads[2].hook = RecordingStub /\ loads[2].file = IntoIterator
  /\ loads[3].hook = RecordingStub /\ loads[3].file = CoerceUnsized
  /\ pending_implementors = loads[1].table
  /\ Len(calls) = 2

\* C10: truthiness picks the branch.  With null, 0 or the empty string in the
\* hook slot the table goes to the pending slot and nothing is called.  With a
\* truthy value the call branch is taken and the pending slot keeps its
\* value: a function is invoked once, and when it throws, or when the value
\* is no function at all, the load ends with that error.
C10_TruthinessPicksBranch ==
  [][IsLoadStep =>
       LET hook == register_implementors
           done == loads'[Len(loads')]
       IN /\ hook \in {Null, Zero, EmptyString} =>
               /\ pending_implementors' = done.table
               /\ calls' = calls
               /\ done.completion = Normal
          /\ hook \in {One, RecordingStub, ThrowingStub} =>
               /\ pending_implementors' = pending_implementors
               /\ writes' = writes
          /\ hook = One =>
               /\ calls' = calls
               /\ done.completion = Throw("TypeError")
          /\ hook = ThrowingStub =>
               /\ Len(calls') = Len(calls) + 1
               /\ done.completion = Throw("HookError")
          /\ hook = RecordingStub =>
               /\ Len(calls') = Len(calls) + 1
               /\ done.completion = Normal]_vars

C10_Witness ==
  /\ Len(loads) = 3
  /\ loads[1].hook = Null /\ loads[1].completion = Normal
  /\ loads[2].hook = One /\ loads[2].completion = Throw("TypeError")
  /\ loads[3].hook = ThrowingStub
  /\ loads[3].completion = Throw("HookError")
  /\ pending_implementors = loads[1].table
  /\ Len(calls) = 1

====
